---- MODULE Spec2Model ----
(***************************************************************************)
(* md-downloader: synchronisation of the .md files of GitHub repositories  *)
(* into a local directory, with a persisted change record (history file).  *)
(*                                                                         *)
(* Two source files are modelled:                                          *)
(*   impl = "api"  src/unnamed/part_000   (package main; blob API fetch,   *)
(*                                         "ERROR" sentinel)               *)
(*   impl = "raw"  src/md-downloader.go   (raw.githubusercontent download) *)
(*                                                                         *)
(* Strings are sequences of tokens.  A token is a run of characters that   *)
(* no operation of the program cuts: a name ("a", "o1"), a separator       *)
(* (":", ",", "/"), an extension (".md") or the host prefix.               *)
(***************************************************************************)
EXTENDS Naturals, Sequences, FiniteSets, TLC

VARIABLES
    impl,       \* which source file runs: "api" or "raw"
    repos,      \* cfg.Repos, as given on the command line
    ignore,     \* the --ignore entries, as given on the command line
    cfgIgnore,  \* cfg.Ignore after parseIgnorePaths
    remote,     \* upstream: normalised repository -> tree listing
    histFile,   \* the persisted record file (cfg.History)
    history,    \* history.Files of the pass in progress
    tree,       \* contents.Tree of the pass in progress
    pc,         \* position of the run
    run,        \* number of the run in progress (0 before the first)
    ri,         \* index into cfg.Repos of the repository in progress
    ti,         \* index into contents.Tree of the entry in progress
    disk,       \* output files: location -> what was written
    dirs,       \* output directories that exist
    trace,      \* what the run in progress did, per tree entry and per repo
    before,     \* histFile as it was when the run in progress started
    prev,       \* the fetches of the previous run that failed
    loaded,     \* history.Files as loadHistory returned it to the pass
    nilFiles,   \* history.Files is the nil map
    faults,     \* I/O failures injected so far
    changes,    \* upstream changes so far
    changedAt   \* number of the last run that an upstream change preceded

vars == <<impl, repos, ignore, cfgIgnore, remote, histFile, history, tree, pc,
          run, ri, ti, disk, dirs, trace, before, prev, loaded, nilFiles,
          faults, changes, changedAt>>

----------------------------------------------------------------------------
(* Bounds *)

MaxRuns == 2        \* invocations of the program in one behaviour
MaxFaults == 1      \* injected I/O failures in one behaviour
MaxChanges == 1     \* upstream changes in one behaviour
MaxEntryLen == 3    \* tokens in one --ignore entry (IgnoreSpec)
MaxEntries == 2     \* --ignore entries (IgnoreSpec)

----------------------------------------------------------------------------
(* Strings *)

ERROR == <<"ERROR">>                      \* the sentinel "ERROR"
HostPrefix == "https://github.com/"       \* one token
EmptyStr == <<>>

\* strings.Index: the first position of token c in s, 0 when absent
RECURSIVE IndexFrom(_, _, _)
IndexFrom(s, c, i) ==
    IF i > Len(s) THEN 0
    ELSE IF s[i] = c THEN i
    ELSE IndexFrom(s, c, i + 1)

Index(s, c) == IndexFrom(s, c, 1)

\* the last position of token c in s, 0 when absent
RECURSIVE LastIndexFrom(_, _, _)
LastIndexFrom(s, c, i) ==
    IF i = 0 THEN 0
    ELSE IF s[i] = c THEN i
    ELSE LastIndexFrom(s, c, i - 1)

LastIndex(s, c) == LastIndexFrom(s, c, Len(s))

\* strings.SplitN(s, ":", 2)
SplitN2(s) ==
    LET i == Index(s, ":") IN
    IF i = 0 THEN <<s>>
    ELSE <<SubSeq(s, 1, i - 1), SubSeq(s, i + 1, Len(s))>>

\* strings.Split(s, ","): every piece between commas, empty pieces included
RECURSIVE Split(_)
Split(s) ==
    LET i == Index(s, ",") IN
    IF i = 0 THEN <<s>>
    ELSE <<SubSeq(s, 1, i - 1)>> \o Split(SubSeq(s, i + 1, Len(s)))

\* strings.TrimPrefix(repo, "https://github.com/")
TrimPrefix(s) ==
    IF Len(s) >= 1 /\ s[1] = HostPrefix THEN Tail(s) ELSE s

\* filepath.Base of a non-empty slash-separated string without trailing slash
Base(s) == SubSeq(s, LastIndex(s, "/") + 1, Len(s))

\* filepath.Dir of a slash-separated location
Dir(s) ==
    LET i == LastIndex(s, "/") IN
    IF i = 0 THEN EmptyStr ELSE SubSeq(s, 1, i - 1)

\* filepath.Join(a, b) for non-empty clean a and b
Join(a, b) == a \o <<"/">> \o b

\* filepath.Ext: the suffix of the last element starting at its last dot.
\* An extension is one token that begins with a dot.
ExtTokens == {".md", ".MD", ".txt"}
Ext(s) ==
    IF Len(s) >= 1 /\ s[Len(s)] \in ExtTokens THEN s[Len(s)] ELSE ""

----------------------------------------------------------------------------
(* Exclusion configuration *)

NoIgnore == << >>     \* make(map[string][]string): the map with no key

Put(m, k, v) == [x \in DOMAIN m \cup {k} |-> IF x = k THEN v ELSE m[x]]

\* one iteration of the loop of parseIgnorePaths
ParseEntry(m, i) ==
    LET split == SplitN2(i) IN
    IF Len(split) < 2 THEN m
    ELSE Put(m, split[1], Split(split[2]))

RECURSIVE ParseFrom(_, _, _)
ParseFrom(ign, k, m) ==
    IF k > Len(ign) THEN m
    ELSE ParseFrom(ign, k + 1, ParseEntry(m, ign[k]))

parseIgnorePaths(ign) == ParseFrom(ign, 1, NoIgnore)

isIgnored(cfgIgn, repo, filePath) ==
    IF repo \in DOMAIN cfgIgn
    THEN \E k \in 1..Len(cfgIgn[repo]) : cfgIgn[repo][k] = filePath
    ELSE FALSE

----------------------------------------------------------------------------
(* Sync decision *)

NoFiles == << >>      \* make(map[string]string)

\* a decision that never compares the content identifier
shouldDownloadIgnoresSha(filePath, sha, hist) ==
    IF filePath \notin DOMAIN hist THEN TRUE
    ELSE hist[filePath] = ERROR

\* part_000
shouldDownload(filePath, sha, hist) ==
    IF filePath \notin DOMAIN hist \/ hist[filePath] = ERROR THEN TRUE
    ELSE hist[filePath] # sha

\* md-downloader.go
shouldDownloadRaw(filePath, sha, hist) ==
    IF filePath \notin DOMAIN hist THEN TRUE
    ELSE hist[filePath] # sha

----------------------------------------------------------------------------
(* Change record store *)

\* What the record file holds.
\*   none      no file
\*   json      a "files" object of strings: files
\*   garbage   not JSON (also a file truncated by an interrupted save)
\*   mistyped  well-formed JSON, the "files" object of which holds the
\*             strings `files` and, under the keys `bad`, values that are
\*             not strings
\*   null      {"files": null}
NoFile == [kind |-> "none", files |-> NoFiles, bad |-> {}]
Garbage == [kind |-> "garbage", files |-> NoFiles, bad |-> {}]
JsonFile(h) == [kind |-> "json", files |-> h, bad |-> {}]
NullFile == [kind |-> "null", files |-> NoFiles, bad |-> {}]

\* json.Decoder.Decode into History{Files: make(map)}: a syntax error leaves
\* the target as it was; a value of the wrong type is skipped (the map gets
\* the zero value under its key), the rest is decoded, and an error is
\* returned; null for "files" sets the map to nil, without an error.
DecodeHistory(f) ==
    CASE f.kind = "json" -> [err |-> FALSE, files |-> f.files]
      [] f.kind = "null" -> [err |-> FALSE, files |-> NoFiles]
      [] f.kind = "mistyped" ->
            [err |-> TRUE,
             files |-> [p \in DOMAIN f.files \cup f.bad |->
                          IF p \in f.bad THEN EmptyStr ELSE f.files[p]]]
      [] OTHER -> [err |-> TRUE, files |-> NoFiles]

\* a load that always starts from the empty record
loadHistoryKeepsNothing(f, io) == NoFiles

\* io: "ok", "openErr" (os.Open fails), "readErr" (a read fails in Decode)
loadHistory(f, io) ==
    IF f.kind = "none" \/ io = "openErr" THEN NoFiles
    ELSE IF io = "readErr" THEN NoFiles
    ELSE DecodeHistory(f).files

\* whether loadHistory returns History{Files: nil}
loadsNil(f, io) == f.kind = "null" /\ io = "ok"

\* a save that leaves the file as it was
saveHistoryKeepsFile(f, h, nil, io) == f

\* io: "ok", "createErr" (os.Create fails: the file is left as it was),
\* "encodeErr" (os.Create truncated the file and the write failed).
\* A nil map is encoded as null.
saveHistory(f, h, nil, io) ==
    CASE io = "createErr" -> f
      [] io = "encodeErr" -> Garbage
      [] OTHER -> IF nil THEN NullFile ELSE JsonFile(h)

----------------------------------------------------------------------------
(* Remote tree listing *)

Item(p, t, s) == [path |-> p, type |-> t, sha |-> s]

\* The response body as a stream.
TreeDoc(t) == [kind |-> "tree", tree |-> t]      \* {"tree": [...], ...}
MessageDoc == [kind |-> "message", tree |-> <<>>] \* {"message": "Bad credentials", ...}
NotJson == [kind |-> "garbage", tree |-> <<>>]
Drained == [kind |-> "eof", tree |-> <<>>]        \* every byte already read

\* json.Decoder.Decode into contents: unknown fields are ignored, so any
\* JSON object decodes; a document without "tree" leaves Tree empty.
DecodeTree(body) ==
    CASE body.kind = "tree" -> [err |-> FALSE, tree |-> body.tree]
      [] body.kind = "message" -> [err |-> FALSE, tree |-> <<>>]
      [] OTHER -> [err |-> TRUE, tree |-> <<>>]

\* What the server answers: net = "ok" the tree; "message" an error document
\* (authorization rejected, not found, rate limit); "garbage" no JSON.
Body(net, t) ==
    CASE net = "message" -> MessageDoc
      [] net = "garbage" -> NotJson
      [] OTHER -> TreeDoc(t)

\* part_000:83-112.  ioutil.ReadAll consumes the body; Decode then reads
\* what is left of the same stream.
listTree(net, t) ==
    IF net = "doErr" THEN [err |-> TRUE, tree |-> <<>>]
    ELSE IF net = "readErr" THEN [err |-> TRUE, tree |-> <<>>]
    ELSE DecodeTree(Drained)

\* md-downloader.go:75-96.  Decode reads the body itself.
listTreeRaw(net, t) ==
    IF net = "doErr" THEN [err |-> TRUE, tree |-> <<>>]
    ELSE IF net = "readErr" THEN [err |-> TRUE, tree |-> <<>>]
    ELSE DecodeTree(Body(net, t))

----------------------------------------------------------------------------
(* File fetch and materialize *)

Output == <<"docs">>          \* cfg.Output, the flag's default
Truncated == <<>>             \* a file created and not written

\* os.MkdirAll(d): d and every parent of d
Parents(d) == {SubSeq(d, 1, k) : k \in {j \in 1..Len(d) : j = Len(d) \/ d[j + 1] = "/"}}

\* os.Create(f): needs the directory of f
CanCreate(ds, f) == Dir(f) \in ds

WriteAt(dk, f, c) == [x \in DOMAIN dk \cup {f} |-> IF x = f THEN c ELSE dk[x]]

\* part_000:162, md-downloader.go:140: the directory of a repository's files
fileDirOf(repo) == Join(Output, Base(repo))
\* part_000:169, md-downloader.go:147: where a file of the repository goes
targetOf(repo, filePath) == Join(fileDirOf(repo), filePath)

\* part_000:161-185.  ok is what the log tells ("File downloaded"); the
\* function returns nothing.
saveFile(dk, ds, repo, filePath, content, io) ==
    LET fileDir == fileDirOf(repo)
        target == targetOf(repo, filePath)
        ds1 == ds \cup Parents(fileDir)
    IN  IF io = "mkdirErr" THEN [disk |-> dk, dirs |-> ds, ok |-> FALSE]
        ELSE IF io = "createErr" \/ ~CanCreate(ds1, target)
             THEN [disk |-> dk, dirs |-> ds1, ok |-> FALSE]
        ELSE IF io = "writeErr"
             THEN [disk |-> WriteAt(dk, target, Truncated), dirs |-> ds1, ok |-> FALSE]
        ELSE [disk |-> WriteAt(dk, target, content), dirs |-> ds1, ok |-> TRUE]

\* md-downloader.go:139-170
downloadFile(dk, ds, repo, filePath, content, io) ==
    LET fileDir == fileDirOf(repo)
        target == targetOf(repo, filePath)
        ds1 == ds \cup Parents(fileDir)
    IN  IF io = "mkdirErr" THEN [disk |-> dk, dirs |-> ds, ok |-> FALSE]
        ELSE IF io = "getErr" THEN [disk |-> dk, dirs |-> ds1, ok |-> FALSE]
        ELSE IF io = "createErr" \/ ~CanCreate(ds1, target)
             THEN [disk |-> dk, dirs |-> ds1, ok |-> FALSE]
        ELSE IF io = "copyErr"
             THEN [disk |-> WriteAt(dk, target, Truncated), dirs |-> ds1, ok |-> FALSE]
        ELSE [disk |-> WriteAt(dk, target, content), dirs |-> ds1, ok |-> TRUE]

----------------------------------------------------------------------------
(* One tree entry of the loop of listMdFiles *)

FetchErrs == {"doErr", "jsonErr", "b64Err"}
ItemIOs(im) ==
    IF im = "api"
    THEN {"ok", "mkdirErr", "createErr", "writeErr"} \cup FetchErrs
    ELSE {"ok", "mkdirErr", "getErr", "createErr", "copyErr"}

\* a filter that looks at the extension only
IsCandidateAnyType(item) == Ext(item.path) = ".md"

\* part_000:117, md-downloader.go:101
IsCandidate(item) == item.type = "blob" /\ Ext(item.path) = ".md"

Result(h, dk, ds, dec, ok) ==
    [history |-> h, disk |-> dk, dirs |-> ds, dec |-> dec, ok |-> ok]

\* part_000:117-155
processItem(cfgIgn, repo, item, h, dk, ds, io) ==
    IF IsCandidate(item)
    THEN IF shouldDownload(item.path, item.sha, h)
         THEN IF isIgnored(cfgIgn, repo, item.path)
              THEN Result(h, dk, ds, "SKIP_EXCLUDED", TRUE)
              ELSE IF io \in FetchErrs
                   THEN Result(Put(h, item.path, ERROR), dk, ds, "FETCH", FALSE)
                   ELSE LET w == saveFile(dk, ds, repo, item.path, item.sha, io)
                        IN  Result(Put(h, item.path, item.sha),
                                   w.disk, w.dirs, "FETCH", w.ok)
         ELSE Result(h, dk, ds, "SKIP_CURRENT", TRUE)
    ELSE Result(h, dk, ds, "NOT_CANDIDATE", TRUE)

\* md-downloader.go:101-114
processItemRaw(cfgIgn, repo, item, h, dk, ds, io) ==
    IF IsCandidate(item)
    THEN IF shouldDownloadRaw(item.path, item.sha, h)
         THEN IF isIgnored(cfgIgn, repo, item.path)
              THEN Result(h, dk, ds, "SKIP_EXCLUDED", TRUE)
              ELSE LET w == downloadFile(dk, ds, repo, item.path, item.sha, io)
                   IN  Result(Put(h, item.path, item.sha),
                              w.disk, w.dirs, "FETCH", w.ok)
         ELSE Result(h, dk, ds, "SKIP_CURRENT", TRUE)
    ELSE Result(h, dk, ds, "NOT_CANDIDATE", TRUE)

\* history.Files[item.Path] = ... is an assignment to an entry of a nil map:
\* the goroutine panics and the process ends (part_000:129, 139, 145, 150;
\* md-downloader.go:109)
Panics(nil, dec) == nil /\ dec = "FETCH"

\* whether the entry is fetched, that is, whether its I/O happens at all
Fetches(im, cfgIgn, repo, item, h) ==
    /\ IsCandidate(item)
    /\ IF im = "api" THEN shouldDownload(item.path, item.sha, h)
                     ELSE shouldDownloadRaw(item.path, item.sha, h)
    /\ ~isIgnored(cfgIgn, repo, item.path)

----------------------------------------------------------------------------
(* Inputs *)

R1 == <<"o1", "/", "p">>
R2 == <<"o2", "/", "p">>
U1 == <<HostPrefix>> \o R1
RepoIds == {R1, R2}
RepoConfigs == {<<R1, R2>>, <<U1>>}

A == <<"a", ".md">>
B == <<"b", ".md">>
N == <<"d", "/", "b", ".md">>
T == <<"a", ".txt">>
D == <<"d">>
M == <<"m", ".md">>       \* a directory named m.md
G == <<"g", ".MD">>
S1 == <<"s1">>
S2 == <<"s2">>
Shas == {S1, S2}

Trees ==
    { <<Item(A, "blob", S1)>>,
      <<Item(A, "blob", S2), Item(B, "blob", S1)>>,
      <<Item(D, "tree", S2), Item(N, "blob", S1), Item(T, "blob", S2),
        Item(M, "tree", S1), Item(G, "blob", S2)>> }
Upstreams == [RepoIds -> Trees]

Entry(repo, paths) == repo \o <<":">> \o paths
IgnoreArgs ==
    { <<>>,
      <<Entry(R1, A)>>,
      <<<<"x">>, Entry(R2, A \o <<",">> \o B)>> }

InitialFiles ==
    { NoFile, Garbage, NullFile, JsonFile(A :> S1),
      [kind |-> "mistyped", files |-> (A :> S1), bad |-> {B}] }

----------------------------------------------------------------------------
(* The run *)

Absent == <<"-">>
ValueAt(h, p) == IF p \in DOMAIN h THEN h[p] ELSE Absent

\* An entry of the trace: what the run did at repos[ri].
\*   kind "list": dec "pass" or "abort", out the network outcome
\*   kind "load": dec the kind of the record file, out the I/O outcome
\*   kind "item": the tree entry, rec the record value of its path before
\*                and post after, dec the decision, out how the fetch went
\*   kind "save": out the I/O outcome
NoItem == Item(EmptyStr, "", EmptyStr)
Event(r, k, item, rec, post, dec, out) ==
    [ri |-> r, kind |-> k, path |-> item.path, type |-> item.type,
     sha |-> item.sha, rec |-> rec, post |-> post, dec |-> dec, out |-> out]
Mark(r, k, dec, out) == Event(r, k, NoItem, EmptyStr, EmptyStr, dec, out)

Repo == TrimPrefix(repos[ri])

Init ==
    /\ impl \in {"api", "raw"}
    /\ repos \in RepoConfigs
    /\ ignore \in IgnoreArgs
    /\ cfgIgnore = NoIgnore
    /\ remote \in Upstreams
    /\ histFile \in InitialFiles
    /\ history = NoFiles
    /\ tree = <<>>
    /\ pc = "idle"
    /\ run = 0
    /\ ri = 0
    /\ ti = 0
    /\ disk = << >>
    /\ dirs = {}
    /\ trace = {}
    /\ before = histFile
    /\ prev = {}
    /\ loaded = NoFiles
    /\ nilFiles = FALSE
    /\ faults = 0
    /\ changes = 0
    /\ changedAt = 0

\* the budget of injected failures: io = "ok" is always possible
Allowed(io) == io = "ok" \/ faults < MaxFaults
Count(io) == IF io = "ok" THEN faults ELSE faults + 1

\* the process is not running: it returned from main or it panicked
Ended == pc \in {"idle", "panic"}

\* part_000:43-48: Run parses the exclusions and starts on the first repo
StartRun ==
    /\ Ended
    /\ run < MaxRuns
    /\ run' = run + 1
    /\ cfgIgnore' = parseIgnorePaths(ignore)
    /\ ri' = 1
    /\ pc' = IF Len(repos) = 0 THEN "idle" ELSE "list"
    /\ trace' = {}
    /\ before' = histFile
    /\ prev' = {e \in trace : e.kind = "item" /\ e.dec = "FETCH" /\ e.out # "ok"}
    /\ UNCHANGED <<impl, repos, ignore, remote, histFile, history, tree, ti,
                   disk, dirs, loaded, nilFiles, faults, changes, changedAt>>

\* the end of listMdFiles(repo): the loop of Run goes to the next repo
Return(ev) ==
    /\ ri' = ri + 1
    /\ pc' = IF ri + 1 > Len(repos) THEN "idle" ELSE "list"
    /\ trace' = trace \cup {ev}

Listed(l, net) ==
    IF l.err
    THEN /\ Return(Mark(ri, "list", "abort", net))
         /\ UNCHANGED <<tree, ti>>
    ELSE /\ tree' = l.tree
         /\ ti' = 1
         /\ pc' = "load"
         /\ trace' = trace \cup
                {Mark(ri, "list", "pass", net)}
         /\ UNCHANGED ri

NetIOs == {"ok", "doErr", "readErr", "message", "garbage"}

\* listMdFiles up to the decoded listing, in each source file
ListTree ==
    /\ pc = "list"
    /\ \E net \in NetIOs :
        /\ Allowed(net)
        /\ faults' = Count(net)
        /\ Listed(IF impl = "api" THEN listTree(net, remote[Repo])
                                  ELSE listTreeRaw(net, remote[Repo]), net)
    /\ UNCHANGED <<impl, repos, ignore, cfgIgnore, remote, histFile, history,
                   run, disk, dirs, before, prev, loaded, nilFiles, changes, changedAt>>

LoadIOs == {"ok", "openErr", "readErr"}

\* part_000:114, md-downloader.go:98
LoadHistory ==
    /\ pc = "load"
    /\ \E io \in LoadIOs :
        /\ Allowed(io)
        /\ faults' = Count(io)
        /\ history' = loadHistory(histFile, io)
        /\ loaded' = history'
        /\ nilFiles' = loadsNil(histFile, io)
        /\ trace' = trace \cup
               {Mark(ri, "load", histFile.kind, io)}
    /\ pc' = "item"
    /\ UNCHANGED <<impl, repos, ignore, cfgIgnore, remote, histFile, tree,
                   run, ri, ti, disk, dirs, before, prev, changes, changedAt>>

\* one iteration of part_000:116-156, md-downloader.go:100-115
ProcessItem ==
    /\ pc = "item"
    /\ ti <= Len(tree)
    /\ \E io \in ItemIOs(impl) :
        LET item == tree[ti]
            r == IF impl = "api"
                 THEN processItem(cfgIgnore, Repo, item, history, disk, dirs, io)
                 ELSE processItemRaw(cfgIgnore, Repo, item, history, disk, dirs, io)
        IN  /\ Allowed(io)
            /\ io # "ok" => Fetches(impl, cfgIgnore, Repo, item, history)
            /\ faults' = Count(io)
            /\ history' = IF Panics(nilFiles, r.dec) THEN history ELSE r.history
            /\ pc' = IF Panics(nilFiles, r.dec) THEN "panic" ELSE pc
            /\ disk' = r.disk
            /\ dirs' = r.dirs
            /\ trace' = trace \cup
                   {Event(ri, "item", item,
                          ValueAt(history, item.path),
                          ValueAt(history', item.path), r.dec,
                          IF r.dec # "FETCH" THEN "-"
                          ELSE IF r.ok THEN "ok"
                          ELSE IF io = "ok" THEN "createErr" ELSE io)}
    /\ ti' = ti + 1
    /\ UNCHANGED <<impl, repos, ignore, cfgIgnore, remote, histFile, tree,
                   run, ri, before, prev, loaded, nilFiles, changes, changedAt>>

SaveIOs == {"ok", "createErr", "encodeErr"}

\* part_000:158, md-downloader.go:117
SaveHistory ==
    /\ pc = "item"
    /\ ti > Len(tree)
    /\ \E io \in SaveIOs :
        /\ Allowed(io)
        /\ faults' = Count(io)
        /\ histFile' = saveHistory(histFile, history, nilFiles, io)
        /\ Return(Mark(ri, "save", "-", io))
    /\ UNCHANGED <<impl, repos, ignore, cfgIgnore, remote, history, tree, run,
                   ti, disk, dirs, before, prev, loaded, nilFiles, changes, changedAt>>

\* Upstream, between two runs: a file changes or is deleted.
SetSha(t, k, s) == [t EXCEPT ![k].sha = s]
Delete(t, k) == SubSeq(t, 1, k - 1) \o SubSeq(t, k + 1, Len(t))

UpstreamChange ==
    /\ Ended
    /\ run >= 1
    /\ run < MaxRuns
    /\ changes < MaxChanges
    /\ \E r \in RepoIds : \E k \in 1..Len(remote[r]) :
          \E t \in {Delete(remote[r], k)} \cup
                    {SetSha(remote[r], k, s) : s \in Shas \ {remote[r][k].sha}} :
              remote' = [remote EXCEPT ![r] = t]
    /\ changes' = changes + 1
    /\ changedAt' = run + 1
    /\ UNCHANGED <<impl, repos, ignore, cfgIgnore, histFile, history, tree, pc,
                   run, ri, ti, disk, dirs, trace, before, prev, loaded, nilFiles,
                   faults>>

\* The pass entered from the decoded listing: the decoder is handed the body
\* itself, as in md-downloader.go:93.  For part_000 this is the loop of
\* :114-158 on every tree the server can send; the program itself hands the
\* decoder the drained body (listTree).
EnterPass ==
    /\ pc = "list"
    /\ \E net \in NetIOs :
        /\ Allowed(net)
        /\ faults' = Count(net)
        /\ Listed(listTreeRaw(net, remote[Repo]), net)
    /\ UNCHANGED <<impl, repos, ignore, cfgIgnore, remote, histFile, history,
                   run, disk, dirs, before, prev, loaded, nilFiles, changes, changedAt>>

Next ==
    \/ StartRun
    \/ ListTree
    \/ LoadHistory
    \/ ProcessItem
    \/ SaveHistory
    \/ UpstreamChange

Spec == Init /\ [][Next]_vars

NextPass ==
    \/ StartRun
    \/ EnterPass
    \/ LoadHistory
    \/ ProcessItem
    \/ SaveHistory
    \/ UpstreamChange

PassSpec == Init /\ [][NextPass]_vars

----------------------------------------------------------------------------
(* parseIgnorePaths and isIgnored on every short list of entries *)

IgnoreAlphabet == {"r", "a", ":", ","}

RECURSIVE StrsUpTo(_)
StrsUpTo(n) ==
    IF n = 0 THEN {EmptyStr}
    ELSE LET shorter == StrsUpTo(n - 1)
         IN  shorter \cup {Append(s, c) : s \in shorter, c \in IgnoreAlphabet}

RECURSIVE ListsUpTo(_, _)
ListsUpTo(S, n) ==
    IF n = 0 THEN {<<>>}
    ELSE LET shorter == ListsUpTo(S, n - 1)
         IN  shorter \cup {Append(l, e) : l \in shorter, e \in S}

InitIgnore ==
    /\ impl = "api"
    /\ repos = <<>>
    /\ ignore \in ListsUpTo(StrsUpTo(MaxEntryLen), MaxEntries)
    /\ cfgIgnore = NoIgnore
    /\ remote = [r \in RepoIds |-> <<>>]
    /\ histFile = NoFile
    /\ history = NoFiles
    /\ tree = <<>>
    /\ pc = "idle"
    /\ run = 0
    /\ ri = 0
    /\ ti = 0
    /\ disk = << >>
    /\ dirs = {}
    /\ trace = {}
    /\ before = histFile
    /\ prev = {}
    /\ loaded = NoFiles
    /\ nilFiles = FALSE
    /\ faults = 0
    /\ changes = 0
    /\ changedAt = 0

IgnoreSpec == InitIgnore /\ [][StartRun]_vars

\* The exclusion as the specification words it, read off the raw entries.
WellFormed(e) == \E i \in 1..Len(e) : e[i] = ":"
RepoPart(e) == SubSeq(e, 1, (CHOOSE i \in 1..Len(e) :
                               e[i] = ":" /\ \A j \in 1..(i - 1) : e[j] # ":") - 1)
PathsPart(e) == SubSeq(e, Len(RepoPart(e)) + 2, Len(e))
\* p is one of the comma-separated pieces of s
IsPiece(p, s) ==
    \E i \in 0..Len(s) : \E j \in i..Len(s) :
        /\ i = 0 \/ s[i] = ","
        /\ j = Len(s) \/ s[j + 1] = ","
        /\ \A k \in (i + 1)..j : s[k] # ","
        /\ SubSeq(s, i + 1, j) = p
Listed4(ign, k, repo, path) ==
    /\ WellFormed(ign[k])
    /\ RepoPart(ign[k]) = repo
    /\ IsPiece(path, PathsPart(ign[k]))
Probes == StrsUpTo(2)

\* C10: after parsing, isIgnored(repo, path) holds exactly when path is one
\* of the comma-separated paths of some entry with a colon whose repository
\* part is repo; entries without a colon change nothing.
C10_ExcludedIffListed ==
    run >= 1 =>
        \A repo \in Probes, path \in Probes :
            isIgnored(cfgIgnore, repo, path)
                <=> \E k \in 1..Len(ignore) : Listed4(ignore, k, repo, path)

\* what the code does: the last entry of a repository replaces the earlier
C10_ExcludedIffListedLast ==
    run >= 1 =>
        \A repo \in Probes, path \in Probes :
            isIgnored(cfgIgnore, repo, path)
                <=> \E k \in 1..Len(ignore) :
                        /\ Listed4(ignore, k, repo, path)
                        /\ \A m \in (k + 1)..Len(ignore) :
                               WellFormed(ignore[m]) => RepoPart(ignore[m]) # repo

----------------------------------------------------------------------------
(* Claims *)

RepoAt(k) == TrimPrefix(repos[k])
Items == {e \in trace : e.kind = "item"}
\* a regular file whose path ends in .md
CandidateEntry(e) == e.type = "blob" /\ e.path[Len(e.path)] = ".md"
\* the path is listed in an --ignore entry of the entry's repository
ExcludedEntry(e) ==
    \E k \in 1..Len(ignore) : Listed4(ignore, k, RepoAt(e.ri), e.path)
RunOver == run >= 1 /\ pc = "idle"

\* C2: a candidate that is not excluded and is recorded with a content
\* identifier A is fetched when the remote identifier differs from A, and
\* otherwise skipped as current, without a fetch and with its record entry
\* as it was.
C2_ChangeDetection ==
    \A e \in Items :
        (CandidateEntry(e) /\ ~ExcludedEntry(e) /\ e.rec \in Shas) =>
            IF e.sha # e.rec
            THEN e.dec = "FETCH"
            ELSE e.dec = "SKIP_CURRENT" /\ e.out = "-" /\ e.post = e.rec

C2_Witness ==
    /\ \E e \in Items :
          /\ CandidateEntry(e) /\ ~ExcludedEntry(e) /\ e.rec \in Shas
          /\ e.sha # e.rec /\ e.dec = "FETCH"
    /\ \E e \in Items :
          /\ CandidateEntry(e) /\ ~ExcludedEntry(e) /\ e.rec \in Shas
          /\ e.sha = e.rec /\ e.dec = "SKIP_CURRENT"

\* C1: with no upstream change between two runs in succession (and no I/O
\* failure at all), the second run fetches nothing.
C1_SecondRunFetchesNothing ==
    (run = 2 /\ changes = 0 /\ faults = 0) =>
        \A e \in Items : e.dec # "FETCH"

\* a fetch that failed to retrieve or decode the content
RetrieveErrs == FetchErrs \cup {"getErr"}
\* a fetch that failed to write the file
WriteErrs == {"mkdirErr", "createErr", "writeErr", "copyErr"}

\* C3: a candidate that is not excluded and whose record value is the
\* sentinel is fetched; a file whose fetch failed in the previous run is
\* fetched again, and its entry holds the current identifier once that
\* fetch succeeds.
C3_RetryAfterFailure ==
    \A e \in Items :
        (CandidateEntry(e) /\ ~ExcludedEntry(e)) =>
            /\ e.rec = ERROR => e.dec = "FETCH"
            /\ (\E f \in prev :
                    f.ri = e.ri /\ f.path = e.path /\ f.out \in RetrieveErrs)
                 => /\ e.dec = "FETCH"
                    /\ e.out = "ok" => e.post = e.sha

FileRecord(f) == IF f.kind = "json" THEN f.files ELSE NoFiles

\* C4: an excluded candidate is never fetched, and its record entry after
\* the run is what it was before the run.
C4_ExclusionPrecedence ==
    /\ \A e \in Items :
          (CandidateEntry(e) /\ ExcludedEntry(e)) =>
              e.dec # "FETCH" /\ e.out = "-"
    /\ (RunOver /\ faults = 0 /\ before.kind \in {"none", "json"}) =>
          \A e \in Items :
              (CandidateEntry(e) /\ ExcludedEntry(e)) =>
                  ValueAt(FileRecord(histFile), e.path)
                      = ValueAt(FileRecord(before), e.path)

\* the pass of repos[k] is over
PassOver(k) == k < ri \/ RunOver
\* every entry of the listing of repos[k] was processed and the record saved
Completed(k) ==
    /\ \A i \in 1..Len(remote[RepoAt(k)]) :
          \E e \in Items : e.ri = k /\ e.path = remote[RepoAt(k)][i].path
    /\ \E s \in trace : s.kind = "save" /\ s.ri = k

\* C5: a fetch that fails to retrieve or decode the content sets the path's
\* entry to the sentinel; the other entries are processed and the record is
\* saved.
C5_FetchErrorMarked ==
    \A e \in Items :
        (e.dec = "FETCH" /\ e.out \in RetrieveErrs) =>
            /\ e.post = ERROR
            /\ PassOver(e.ri) => Completed(e.ri)

\* C6: a fetch that fails to write the file sets the path's entry to the
\* sentinel; the other entries are processed.
C6_WriteErrorMarked ==
    \A e \in Items :
        (e.dec = "FETCH" /\ e.out \in WriteErrs) =>
            /\ e.post = ERROR
            /\ PassOver(e.ri) => Completed(e.ri)

\* C7: when the listing request errors, the response does not parse or
\* authorization is rejected, the repository's pass is aborted: no entry is
\* considered, nothing is fetched, the record is neither loaded nor saved.
C7_ListingFailureAborts ==
    \A l \in trace :
        (l.kind = "list" /\ l.out \in {"doErr", "readErr", "garbage", "message"})
            => /\ l.dec = "abort"
               /\ \A e \in trace : e.ri = l.ri => e.kind = "list"

FileKeys(f) ==
    IF f.kind \in {"json", "mistyped"} THEN DOMAIN f.files \cup f.bad ELSE {}
LoadOk(k) == \E l \in trace : l.kind = "load" /\ l.ri = k /\ l.out = "ok"
SaveOk(k) == \E s \in trace : s.kind = "save" /\ s.ri = k /\ s.out = "ok"
Fetched(k, p) ==
    \E e \in Items : e.ri = k /\ e.path = p /\ e.dec = "FETCH"

C9_LoadTolerance ==
    \A l \in trace :
        (l.kind = "load" /\ (l.dec # "json" \/ l.out # "ok")) =>
            /\ (pc = "item" /\ l.ri = ri) => loaded = NoFiles
            /\ \A e \in Items :
                  (e.ri = l.ri /\ CandidateEntry(e) /\ ~ExcludedEntry(e))
                      => e.dec = "FETCH"

----------------------------------------------------------------------------
\* the last token of a path
Last(p) == p[Len(p)]
\* the tree entry the loop is at is not a regular file ending in .md
AtOther ==
    /\ pc = "item"
    /\ ti <= Len(tree)
    /\ ~(tree[ti].type = "blob" /\ Last(tree[ti].path) = ".md")

\* C11: for a tree entry that is not a regular file whose path ends in .md
\* (a directory, a .txt file, a .MD file) nothing is fetched, no output file
\* is written and the record is left as it was.
C11_OnlyCandidates ==
    [][AtOther =>
          /\ \A e \in trace' \ trace : e.dec = "NOT_CANDIDATE" /\ e.out = "-"
          /\ disk' = disk
          /\ dirs' = dirs
          /\ history' = history
          /\ histFile' = histFile]_vars

C11_Witness ==
    /\ \E e \in Items : e.type = "tree" /\ Last(e.path) = ".md"
                           /\ e.dec = "NOT_CANDIDATE"
    /\ \E e \in Items : e.type = "blob" /\ Last(e.path) = ".MD"
                           /\ e.dec = "NOT_CANDIDATE"
    /\ \E e \in Items : e.type = "blob" /\ Last(e.path) = ".txt"
                           /\ e.dec = "NOT_CANDIDATE"
    /\ \E e \in Items : e.dec = "FETCH"

----------------------------------------------------------------------------
\* the listing of repos[k] was requested in the run in progress
Attempted(k) == \E l \in trace : l.kind = "list" /\ l.ri = k
ListedOk(k) == \E l \in trace : l.kind = "list" /\ l.ri = k /\ l.dec = "pass"
Saved(k) == \E s \in trace : s.kind = "save" /\ s.ri = k

\* C12: whatever fails in one repository, the run goes through every
\* configured repository in the configured order: a repository is attempted
\* only after all repositories before it, and when the process has ended
\* every repository was attempted and every repository whose listing
\* succeeded reached its record save.
C12_BestEffort ==
    /\ \A e \in trace : \A j \in 1..e.ri : Attempted(j)
    /\ (run >= 1 /\ Ended) =>
          \A k \in 1..Len(repos) :
              Attempted(k) /\ (ListedOk(k) => Saved(k))

----------------------------------------------------------------------------
\* the entry was fetched and its file written
Written(e) == e.kind = "item" /\ e.dec = "FETCH" /\ e.out = "ok"

\* C13: files written for two distinct configured repositories never go to
\* the same location.
C13_NoCollision ==
    \A e \in Items : \A f \in Items :
        (Written(e) /\ Written(f) /\ repos[e.ri] # repos[f.ri]) =>
            targetOf(RepoAt(e.ri), e.path) # targetOf(RepoAt(f.ri), f.path)

----------------------------------------------------------------------------
\* <output-root>/basename(r)/p
Expected(r, p) == <<"docs", "/", Last(r), "/">> \o p
\* the loop is at an entry that it fetches, and no I/O failure is injected
FetchesNow ==
    /\ pc = "item"
    /\ ti <= Len(tree)
    /\ faults' = faults
    /\ \E e \in trace' \ trace : e.dec = "FETCH"

\* C14: a fetched file with path p of repository r is written to
\* <output-root>/basename(r)/p, also when p is nested: unless an I/O failure
\* hits the fetch, the file is there afterwards with the fetched content.
C14_OutputPath ==
    [][FetchesNow =>
          /\ Expected(RepoAt(ri), tree[ti].path) \in DOMAIN disk'
          /\ disk'[Expected(RepoAt(ri), tree[ti].path)] = tree[ti].sha]_vars

----------------------------------------------------------------------------
\* C15: a record value written during the run is the sentinel or the
\* content identifier of a file that was fetched and written in this run.
C15_RecordInvariant ==
    \A e \in Items :
        (e.dec = "FETCH" /\ e.post # Absent) =>
            \/ e.post = ERROR
            \/ e.post = e.sha /\ e.out = "ok"

----------------------------------------------------------------------------
\* the decision of the specified algorithm: exclusion first, then the record
Specified(e) ==
    IF ExcludedEntry(e) THEN "SKIP_EXCLUDED"
    ELSE IF e.rec = Absent \/ e.rec = ERROR \/ e.rec # e.sha THEN "FETCH"
    ELSE "SKIP_CURRENT"

\* C16: an excluded candidate is classified SKIP_EXCLUDED whatever the
\* record holds, and every candidate gets the classification of the
\* specified algorithm.
C16_DecisionOrder ==
    \A e \in Items :
        CandidateEntry(e) =>
            /\ ExcludedEntry(e) => e.dec = "SKIP_EXCLUDED"
            /\ e.dec = Specified(e)

----------------------------------------------------------------------------
LoadedFor(k) == \E l \in trace : l.kind = "load" /\ l.ri = k
\* every candidate entry of the listing of repos[k] was decided
AllDecided(k) ==
    \A i \in 1..Len(remote[RepoAt(k)]) :
        LET item == remote[RepoAt(k)][i] IN
        (item.type = "blob" /\ Last(item.path) = ".md") =>
            \E e \in Items : e.ri = k /\ e.path = item.path
                              /\ e.dec \in {"FETCH", "SKIP_CURRENT", "SKIP_EXCLUDED"}

\* C17: when the listing request of a repository succeeded and the body was
\* a valid tree document, the pass loads the record, decides every candidate
\* entry and saves the record: once the run has left the repository, all of
\* that has happened.
C17_ListingLeadsToPass ==
    \A l \in trace :
        (l.kind = "list" /\ l.out = "ok" /\ (l.ri < ri \/ Ended)) =>
            /\ LoadedFor(l.ri)
            /\ changedAt <= run => AllDecided(l.ri)
            /\ Saved(l.ri)

----------------------------------------------------------------------------
\* C18: the decision for a path of a repository depends on that
\* repository's own earlier results only.  In a first run without a record
\* file no repository has earlier results: every candidate is decided on an
\* absent record entry, none is skipped as current.
C18_RecordIndependence ==
    (run = 1 /\ before.kind = "none") =>
        \A e \in Items :
            CandidateEntry(e) =>
                /\ e.rec = Absent
                /\ e.dec # "SKIP_CURRENT"

----------------------------------------------------------------------------
\* every tree entry of the pass in progress was processed
LoopDone == pc = "item" /\ ti > Len(tree)
\* the step calls saveHistory
Saves == \E s \in trace' \ trace : s.kind = "save" /\ s.ri = ri

\* C19: the record file changes only in the step that follows the last tree
\* entry of a pass; that step is the one call of saveHistory of the pass and
\* ends the pass; when the save succeeds the file holds the whole in-memory
\* record.  So while entries are processed, and when the pass is interrupted
\* there, the file is as it was before the pass.
C19_SaveOrdering ==
    [][/\ histFile' # histFile => LoopDone
       /\ Saves => LoopDone
       /\ LoopDone =>
             /\ Saves
             /\ pc' # "item"
             /\ (\A s \in trace' \ trace : s.out = "ok") =>
                   /\ histFile'.kind \in {"json", "null"}
                   /\ histFile'.files = history]_vars

\* a pass of two entries that fetched both, with the record file untouched
\* until the save and holding the whole record after it
C19_Witness ==
    /\ pc \in {"list", "idle"} /\ ri = 2 /\ SaveOk(1)
    /\ \E e \in Items : \E f \in Items :
          /\ e.ri = 1 /\ f.ri = 1 /\ e.path # f.path
          /\ e.dec = "FETCH" /\ f.dec = "FETCH"
    /\ histFile = JsonFile(history)
    /\ histFile # before
    /\ Cardinality(DOMAIN histFile.files) >= 2

====
